---- MODULE Spec2Model ----
(***************************************************************************)
(* A model of the site generator of src/src/generator.rs (Generator,       *)
(* RenderCache) and of the manifest it consumes (src/src/manifest.rs).     *)
(*                                                                         *)
(* The state is the build directory on disk (render_cache.json, the        *)
(* svg/<id>/ directories, the HTML tree), the material directory           *)
(* (manifest.json, zip/<id>.zip) and the in-memory Generator of the run    *)
(* in progress.  Strings are sequences of code points, so that sanitize    *)
(* and the BTreeMap orders are computed as the code computes them.         *)
(***************************************************************************)
EXTENDS Integers, Sequences, FiniteSets, TLC

(***************************************************************************)
(* Bounds of the model.                                                    *)
(***************************************************************************)
MaxTime   == 2   \* timestamps are 1..MaxTime
MaxRuns   == 2   \* generate runs in one behaviour
MaxEnv    == 1   \* events from outside: fetched updates, changes to the build directory, kills

Times == 1..MaxTime

(***************************************************************************)
(* Strings as sequences of code points.                                    *)
(***************************************************************************)
StrHome  == <<72, 111, 109, 101>>            \* "Home"
StrLogo  == <<76, 111, 103, 111>>            \* "Logo"
StrPosts == <<112, 111, 115, 116, 115>>      \* "posts"
StrSvg   == <<115, 118, 103>>                \* "svg"
StrIndex == <<105, 110, 100, 101, 120>>      \* "index"
StrStyle == <<115, 116, 121, 108, 101, 46, 99, 115, 115>>  \* "style.css"
DotHtml  == <<46, 104, 116, 109, 108>>       \* ".html"
NameA    == <<65>>                           \* "A"
NameB    == <<98>>                           \* "b"
NameF    == <<70, 32, 49>>                   \* "F 1"

Dash == 45

IsAsciiAlphanumeric(c) ==
    \/ c \in 48..57
    \/ c \in 65..90
    \/ c \in 97..122

\* A sanitize that also folds letters to lower case.
sanitize_Lower(name) ==
    [i \in 1..Len(name) |->
        IF name[i] \in 65..90 THEN name[i] + 32
        ELSE IF IsAsciiAlphanumeric(name[i]) THEN name[i] ELSE Dash]

sanitize(name) ==
    [i \in 1..Len(name) |-> IF IsAsciiAlphanumeric(name[i]) THEN name[i] ELSE Dash]

\* Ord for String: bytewise lexicographic.
StrLess(a, b) ==
    \E i \in 1..(Len(a) + 1) :
        /\ \A j \in 1..(i - 1) : j <= Len(b) /\ a[j] = b[j]
        /\ \/ i = Len(a) + 1 /\ Len(b) >= i
           \/ i <= Len(a) /\ i <= Len(b) /\ a[i] < b[i]

\* Ord for Vec<String>: lexicographic over StrLess.
PathLess(p, q) ==
    \E i \in 1..(Len(p) + 1) :
        /\ \A j \in 1..(i - 1) : j <= Len(q) /\ p[j] = q[j]
        /\ \/ i = Len(p) + 1 /\ Len(q) >= i
           \/ i <= Len(p) /\ i <= Len(q) /\ StrLess(p[i], q[i])

RECURSIVE SortStrs(_)
SortStrs(S) ==
    IF S = {} THEN <<>>
    ELSE LET m == CHOOSE x \in S : \A y \in S \ {x} : StrLess(x, y)
         IN  <<m>> \o SortStrs(S \ {m})

RECURSIVE SortPaths(_)
SortPaths(S) ==
    IF S = {} THEN <<>>
    ELSE LET m == CHOOSE x \in S : \A y \in S \ {x} : PathLess(x, y)
         IN  <<m>> \o SortPaths(S \ {m})

\* BTreeMap iteration: the keys in ascending order.
Keys(map) == SortStrs(DOMAIN map)

(***************************************************************************)
(* The manifest (manifest.rs): DocumentMeta, Manifest, Posts.              *)
(***************************************************************************)
DocumentMeta(id, name, t) == [id |-> id, name |-> name, modified_client |-> t]

EmptyMap == [x \in {} |-> x]

Posts(documents, folders) == [documents |-> documents, folders |-> folders]

\* Posts::docs: path of names -> DocumentMeta, over the whole tree.
RECURSIVE PostsDocs(_)
PostsDocs(posts) ==
    LET own == { <<(<<n>>), posts.documents[n]>> : n \in DOMAIN posts.documents }
        sub(n) == { <<(<<n>> \o e[1]), e[2]>> : e \in PostsDocs(posts.folders[n]) }
    IN  own \cup UNION { sub(n) : n \in DOMAIN posts.folders }

PostsDocAt(posts, path) == (CHOOSE e \in PostsDocs(posts) : e[1] = path)[2]

\* Posts::docs().into_values(): the documents in ascending path order.
PostsDocSeq(posts) ==
    LET paths == SortPaths({ e[1] : e \in PostsDocs(posts) })
    IN  [i \in 1..Len(paths) |-> PostsDocAt(posts, paths[i])]

\* Manifest::docs: home, logo, then the documents of the posts tree.
ManifestDocs(m) == <<m.home, m.logo>> \o PostsDocSeq(m.posts)

HomeIx == 1
LogoIx == 2


(***************************************************************************)
(* Inputs: the shapes of the posts tree, the archives, the versions.       *)
(* A shape is a posts tree whose documents are slots (3, 4, ...); slots 1  *)
(* and 2 are the home and logo documents.                                  *)
(***************************************************************************)
Slot(n, name) == [slot |-> n, name |-> name]

ShapeNest == Posts((NameA :> Slot(3, NameA)),
                   (NameF :> Posts((NameB :> Slot(4, NameB)), EmptyMap)))

Shapes == {ShapeNest}

StrWelcome == <<87, 101, 108, 99, 111, 109, 101>>   \* "Welcome"
StrRecipes == <<82, 101, 99, 105, 112, 101, 115>>   \* "Recipes"
StrSoup    == <<83, 111, 117, 112>>                 \* "Soup"

\* {documents: {Welcome}, folders: {Recipes: {documents: {Soup}}}}
ShapeE2E == Posts((StrWelcome :> Slot(3, StrWelcome)),
                  (StrRecipes :> Posts((StrSoup :> Slot(4, StrSoup)), EmptyMap)))

\* A document and an empty folder of the same name, side by side.
ShapeClash == Posts((NameA :> Slot(3, NameA)), (NameA :> Posts(EmptyMap, EmptyMap)))

\* A document under two folders.
ShapeDeep == Posts(EmptyMap,
                   (NameA :> Posts(EmptyMap,
                                   (NameF :> Posts((NameB :> Slot(3, NameB)), EmptyMap)))))

TreeShapes == {ShapeE2E, ShapeClash, ShapeDeep}

MaxSlots == 4
Ids == 1..MaxSlots

RECURSIVE FillPosts(_, _, _)
FillPosts(shape, idOf, stampOf) ==
    Posts([n \in DOMAIN shape.documents |->
              DocumentMeta(idOf[shape.documents[n].slot],
                           shape.documents[n].name,
                           stampOf[shape.documents[n].slot])],
          [n \in DOMAIN shape.folders |->
              FillPosts(shape.folders[n], idOf, stampOf)])

\* Manifest::load: the manifest that manifest.json holds.
LoadManifest(shape, idOf, stampOf) ==
    [home  |-> DocumentMeta(idOf[1], StrHome, stampOf[1]),
     logo  |-> DocumentMeta(idOf[2], StrLogo, stampOf[2]),
     posts |-> FillPosts(shape, idOf, stampOf)]

NSlots(shape) == 2 + Cardinality(PostsDocs(shape))

\* An archive zip/<id>.zip: whether the file is there, and its page-content
\* entries "<id>/<n>.rm" in archive order.  BadEntry is an .rm entry whose
\* content or page number does not parse.
BadEntry == 0 - 1
Zip(entries) == [present |-> TRUE, entries |-> entries]
NoZip == [present |-> FALSE, entries |-> <<>>]
Archives == {NoZip, Zip(<<0>>), Zip(<<1, 0>>), Zip(<<0, BadEntry>>), Zip(<<>>)}
PlainArchives == {NoZip, Zip(<<0>>)}
\* The archives a fetch may bring for a slot: any for the documents of the
\* posts tree, a one-page archive or none for home and logo.
ArchivesOf(s) == IF s <= 2 THEN PlainArchives ELSE Archives
\* The archives of the first fetch.
FirstArchivesOf(s) == IF s <= 2 THEN {Zip(<<0>>)} ELSE {NoZip, Zip(<<0>>), Zip(<<1, 0>>)}

CRATE_VERSION == "current"
OtherVersion  == "previous"

\* RenderCache::default
RenderCacheDefault == [version |-> CRATE_VERSION, cache |-> EmptyMap]

\* RenderCache::get
CacheGet(rc, id) == IF id \in DOMAIN rc.cache THEN {rc.cache[id]} ELSE {}

\* A version test that accepts any tag.
IsCurrentVersion_AnyTag(rc) == rc.version \in {CRATE_VERSION, OtherVersion}

\* RenderCache::is_current_version
IsCurrentVersion(rc) == rc.version = CRATE_VERSION

\* render_cache.json: absent, complete (a RenderCache), truncated (created,
\* nothing written yet) or partial (some of the JSON written).
NoFile == [st |-> "absent", version |-> CRATE_VERSION, cache |-> EmptyMap]
CompleteFile(rc) == [st |-> "complete", version |-> rc.version, cache |-> rc.cache]

\* A directory svg/<id>/: whether it exists, and its files.  A file has a
\* stem, and its bytes are decided by the document version and the mode.
BadStem == 0 - 1
U16Max == 65535
NoDir == [exists |-> FALSE, files |-> {}]
SvgFile(stem, t, crop) == [stem |-> stem, ts |-> t, crop |-> crop]

(***************************************************************************)
(* Paths are sequences of segments.  Generator.root and Generator.prefix.  *)
(***************************************************************************)
RootSeg   == <<47, 111, 117, 116>>     \* the output root, "/out"
PrefixSeg == <<47, 112>>               \* the URL prefix, "/p"
root   == <<RootSeg>>
prefix == <<PrefixSeg>>

\* A link made without stripping the root.
relative_to_root_NoStrip(path) == prefix \o path

\* Generator::relative_to_root: strip the root, join to the prefix.
relative_to_root(path) == prefix \o SubSeq(path, Len(root) + 1, Len(path))

DotSvg   == <<46, 115, 118, 103>>      \* ".svg"
StrNotes == <<110, 111, 116, 101, 115>> \* "notes", a stem that is no number

\* format!("{}", n) of a page number.
RECURSIVE Decimal(_)
Decimal(n) == IF n < 10 THEN <<48 + n>> ELSE Decimal(n \div 10) \o <<48 + (n % 10)>>

\* format!("{}", id) of a document id: one segment per id.
IdSeg(id) == <<id>>

\* The name of a file of svg/<id>/ by its stem.
StemName(stem) == IF stem < 0 THEN StrNotes ELSE Decimal(stem)

\* notebook_root.join(format!("{}.svg", page_number))
SvgPath(id, stem) == root \o <<StrSvg, IdSeg(id), StemName(stem) \o DotSvg>>

\* prefix.join(path.strip_prefix(root)) of render_doc_meta and render_notebook_zip.
SvgLink(path) == prefix \o SubSeq(path, Len(root) + 1, Len(path))

\* An error value: the chain of contexts, outermost first; each context has
\* its text and the values formatted into it.  A panic is told apart.
NoError == [kind |-> "none", chain |-> <<>>]
Ctx(msg) == [msg |-> msg, args |-> {}]
Error(chain) == [kind |-> "error", chain |-> chain]
Panic(msg) == [kind |-> "panic", chain |-> <<Ctx(msg)>>]
WithContext(e, msg) ==
    IF e.kind = "error" THEN [e EXCEPT !.chain = <<Ctx(msg)>> \o @] ELSE e


(***************************************************************************)
(* State.                                                                  *)
(***************************************************************************)
VARIABLES
    shape,        \* manifest.json: the posts tree (fixed in a behaviour)
    idOf,         \* manifest.json: slot -> document id
    stampOf,      \* manifest.json: slot -> modified_client
    zips,         \* material/zip/<id>.zip, by id
    cacheFile,    \* <root>/render_cache.json
    svg,          \* <root>/svg/<id>/, by id
    site,         \* <root>: the HTML tree, style.css
    pc,           \* where the run is
    no_cache,     \* prepare's flag
    render_cache, \* Generator.render_cache
    tasks,        \* one render_doc_meta call per element of Manifest::docs
    doc_svgs,     \* render_all_svgs's map, then Generator.svgs
    err,          \* the Err (or panic) the run ended with
    failedDoc,    \* the element of Manifest::docs whose render gave err
    asm,          \* gen_index: steps of the assembly done
    runs, envs,   \* budgets used
    cacheAtLoad,  \* history: render_cache as prepare loaded it
    fileAtStart,  \* history: render_cache.json when the run started
    svgAtStart,   \* history: svg/ when the run started
    opened,       \* history: ids whose archive this run opened
    svgOps,       \* history: ids whose svg/<id>/ this run removed, created or wrote in
    specifier,    \* Manifest::build: the root specifier
    cloud,        \* Manifest::build: the Documents of the account
    built         \* Manifest::build: its result

diskVars == <<shape, idOf, stampOf, zips, cacheFile, svg, site>>
genVars  == <<pc, no_cache, render_cache, tasks, doc_svgs, err, failedDoc, asm>>
histVars == <<runs, envs, cacheAtLoad, fileAtStart, svgAtStart, opened, svgOps>>
buildVars == <<specifier, cloud, built>>
vars == <<diskVars, genVars, histVars, buildVars>>

manifest == LoadManifest(shape, idOf, stampOf)
Docs == ManifestDocs(manifest)
\* The calls of render_doc_meta of a run, one per element of Manifest::docs;
\* those from the third on are the fan-out over posts.docs().
Calls == DOMAIN tasks
FanOut == Calls \ {HomeIx, LogoIx}

Task(doc) == [doc |-> doc, st |-> "pending", hit |-> FALSE, k |-> 0, pages |-> <<>>,
              err |-> NoError]
Running == {"decided", "list", "remove", "mkdir", "open", "page"}
Ended == {"done", "failed", "skipped"}
BetweenRuns == {"idle", "done", "failed", "crashed"}

(***************************************************************************)
(* Manifest::build (manifest.rs): from the records of the account and the  *)
(* root specifier to the manifest, or an error.                            *)
(***************************************************************************)
CollectionType == "CollectionType"
DocumentType   == "DocumentType"

\* remarkable_cloud_api::Parent
ParentRoot == [kind |-> "Root", id |-> 0]
ParentNode(id) == [kind |-> "Node", id |-> id]

\* A record of the account.
Document(id, parent, doc_type, visible_name, t) ==
    [id |-> id, parent |-> parent, doc_type |-> doc_type,
     visible_name |-> visible_name, modified_client |-> t]

StrSite        == <<83, 105, 116, 101>>        \* "Site"
StrPostsFolder == <<80, 111, 115, 116, 115>>   \* "Posts"

\* Uuid::parse_str: the strings format!("{}", id) gives, and no other.
UuidParse(str) == IF Len(str) = 1 /\ str[1] < 32 THEN {str[1]} ELSE {}

\* Documents::get
DocumentsGet(docs, id) == { d \in docs : d.id = id }

\* The order in which Documents::children yields the records is not fixed
\* by the code: by ascending or by descending id.
Orders == {"ascending", "descending"}

RECURSIVE InOrder(_, _)
InOrder(S, ord) ==
    IF S = {} THEN <<>>
    ELSE LET m == CHOOSE x \in S : \A y \in S :
                      IF ord = "ascending" THEN x.id <= y.id ELSE x.id >= y.id
         IN  <<m>> \o InOrder(S \ {m}, ord)

\* Documents::children
Children(docs, parent, ord) == InOrder({ d \in docs : d.parent = parent }, ord)

\* collect() into a BTreeMap: for a key that comes twice the last value stays.
Collect(keys, values) ==
    [k \in { keys[j] : j \in DOMAIN keys } |->
        values[CHOOSE j \in DOMAIN keys :
                   keys[j] = k /\ \A l \in DOMAIN keys : keys[l] = k => l <= j]]

\* anyhow!(...) with the values formatted into the message.
CtxWith(msg, names, numbers) == [msg |-> msg, args |-> numbers, names |-> names]

Found(id) == [ok |-> TRUE, id |-> id, err |-> NoError]
NotFound(e) == [ok |-> FALSE, id |-> 0, err |-> e]

\* A resolution by name that takes one of several folders of that name.
SiteRoot_TakesOne(root_folder, docs, ord) ==
    LET parsed == UuidParse(root_folder)
    IN  IF parsed # {}
        THEN LET id == CHOOSE x \in parsed : TRUE
                 found == DocumentsGet(docs, id)
             IN  IF found = {}
                 THEN NotFound(Error(<<CtxWith("No document with ID", {}, {id})>>))
                 ELSE LET root_doc == CHOOSE d \in found : TRUE
                      IN  IF root_doc.doc_type # CollectionType
                          THEN NotFound(Error(<<CtxWith("Site root must be a folder", {}, {})>>))
                          ELSE Found(root_doc.id)
        ELSE LET site_roots == SelectSeq(Children(docs, ParentRoot, ord),
                                         LAMBDA d : /\ d.doc_type = CollectionType
                                                    /\ d.visible_name = root_folder)
             IN  IF Len(site_roots) = 0
                 THEN NotFound(Error(<<CtxWith("Make sure to have one folder named",
                                               {root_folder}, {Len(site_roots)})>>))
                 ELSE Found(site_roots[Len(site_roots)].id)

\* Manifest::build, the resolution of the site root.
SiteRoot(root_folder, docs, ord) ==
    LET parsed == UuidParse(root_folder)
    IN  IF parsed # {}
        THEN LET id == CHOOSE x \in parsed : TRUE
                 found == DocumentsGet(docs, id)
             IN  IF found = {}
                 THEN NotFound(Error(<<CtxWith("No document with ID", {}, {id})>>))
                 ELSE LET root_doc == CHOOSE d \in found : TRUE
                      IN  IF root_doc.doc_type # CollectionType
                          THEN NotFound(Error(<<CtxWith("Site root must be a folder", {}, {})>>))
                          ELSE Found(root_doc.id)
        ELSE LET site_roots == SelectSeq(Children(docs, ParentRoot, ord),
                                         LAMBDA d : /\ d.doc_type = CollectionType
                                                    /\ d.visible_name = root_folder)
             IN  IF Len(site_roots) # 1
                 THEN NotFound(Error(<<CtxWith("Make sure to have one folder named",
                                               {root_folder}, {Len(site_roots)})>>))
                 ELSE Found(site_roots[Len(site_roots)].id)

NoMeta == DocumentMeta(0, <<>>, 0)
MetaOk(d) == [ok |-> TRUE, value |-> DocumentMeta(d.id, d.visible_name, d.modified_client),
              err |-> NoError]
MetaErr(e) == [ok |-> FALSE, value |-> NoMeta, err |-> e]

\* A lookup that takes the first of several notebooks of that name.
root_doc_by_name_First(doc_name, root_id, docs, ord) ==
    LET matching_docs == SelectSeq(Children(docs, ParentNode(root_id), ord),
                                   LAMBDA d : /\ d.visible_name = doc_name
                                              /\ d.doc_type = DocumentType)
    IN  IF Len(matching_docs) >= 1 THEN MetaOk(matching_docs[1])
        ELSE MetaErr(Error(<<CtxWith("Missing notebook in site root", {doc_name}, {})>>))

\* Manifest::root_doc_by_name
root_doc_by_name(doc_name, root_id, docs, ord) ==
    LET matching_docs == SelectSeq(Children(docs, ParentNode(root_id), ord),
                                   LAMBDA d : /\ d.visible_name = doc_name
                                              /\ d.doc_type = DocumentType)
    IN  IF Len(matching_docs) = 1 THEN MetaOk(matching_docs[1])
        ELSE IF Len(matching_docs) = 0
        THEN MetaErr(Error(<<CtxWith("Missing notebook in site root", {doc_name}, {})>>))
        ELSE MetaErr(Error(<<CtxWith("Multiple notebooks in site root", {doc_name}, {})>>))

\* Posts::build_posts_hierarchy
RECURSIVE build_posts_hierarchy(_, _, _)
build_posts_hierarchy(folder, all_docs, ord) ==
    LET items == Children(all_docs, ParentNode(folder), ord)
        ds == SelectSeq(items, LAMBDA d : d.doc_type = DocumentType)
        fs == SelectSeq(items, LAMBDA d : d.doc_type = CollectionType)
    IN  Posts(Collect([j \in DOMAIN ds |-> ds[j].visible_name],
                      [j \in DOMAIN ds |->
                          DocumentMeta(ds[j].id, ds[j].visible_name, ds[j].modified_client)]),
              Collect([j \in DOMAIN fs |-> fs[j].visible_name],
                      [j \in DOMAIN fs |-> build_posts_hierarchy(fs[j].id, all_docs, ord)]))

EmptyPosts == Posts(EmptyMap, EmptyMap)

\* Posts::build
PostsBuild(root_id, docs, ord) ==
    LET matching_docs == SelectSeq(Children(docs, ParentNode(root_id), ord),
                                   LAMBDA d : /\ d.visible_name = StrPostsFolder
                                              /\ d.doc_type = CollectionType)
    IN  IF Len(matching_docs) = 1
        THEN [ok |-> TRUE, value |-> build_posts_hierarchy(matching_docs[1].id, docs, ord),
              err |-> NoError]
        ELSE IF Len(matching_docs) = 0
        THEN [ok |-> FALSE, value |-> EmptyPosts,
              err |-> Error(<<CtxWith("Missing 'Posts' folder in site root", {}, {})>>)]
        ELSE [ok |-> FALSE, value |-> EmptyPosts,
              err |-> Error(<<CtxWith("Multiple 'Posts' folders in site root", {}, {})>>)]

NoManifest == [home |-> NoMeta, logo |-> NoMeta, posts |-> EmptyPosts]
NotBuilt == [st |-> "none", ok |-> FALSE, site_root |-> 0, manifest |-> NoManifest,
             err |-> NoError]
BuildErr(site_root, e) == [st |-> "built", ok |-> FALSE, site_root |-> site_root,
                           manifest |-> NoManifest, err |-> e]

\* Manifest::build
ManifestBuild(root_folder, docs, ord) ==
    LET site_root == SiteRoot(root_folder, docs, ord)
    IN  IF ~site_root.ok THEN BuildErr(0, site_root.err)
        ELSE
        LET home == root_doc_by_name(StrHome, site_root.id, docs, ord)
        IN  IF ~home.ok
            THEN BuildErr(site_root.id, WithContext(home.err, "Looking for 'Home' notebook"))
            ELSE
        LET logo == root_doc_by_name(StrLogo, site_root.id, docs, ord)
        IN  IF ~logo.ok
            THEN BuildErr(site_root.id, WithContext(logo.err, "Looking for 'Logo' notebook"))
            ELSE
        LET posts == PostsBuild(site_root.id, docs, ord)
        IN  IF ~posts.ok
            THEN BuildErr(site_root.id, WithContext(posts.err, "Looking for 'Posts' folder"))
            ELSE [st |-> "built", ok |-> TRUE, site_root |-> site_root.id,
                  manifest |-> [home |-> home.value, logo |-> logo.value, posts |-> posts.value],
                  err |-> NoError]

\* No build is modelled in a generate run.
NoBuild ==
    /\ specifier = StrSite
    /\ cloud = {}
    /\ built = NotBuilt

InitCommon ==
    /\ shape \in Shapes
    /\ \E t \in Times : stampOf = [s \in 1..NSlots(shape) |-> t]
    /\ zips \in [Ids -> Archives]
    /\ cacheFile = NoFile
    /\ svg = [i \in Ids |-> NoDir]
    /\ site = [dirs |-> {}, files |-> {}]
    /\ pc = "idle"
    /\ no_cache = FALSE
    /\ render_cache = RenderCacheDefault
    /\ tasks = <<>>
    /\ doc_svgs = EmptyMap
    /\ err = NoError
    /\ failedDoc = 0
    /\ asm = 0
    /\ runs = 0 /\ envs = 0
    /\ cacheAtLoad = RenderCacheDefault
    /\ fileAtStart = NoFile
    /\ svgAtStart = svg
    /\ opened = {}
    /\ svgOps = {}
    /\ NoBuild

\* The manifests Manifest::build writes: one record per id.
Init ==
    /\ InitCommon
    /\ idOf = [s \in 1..NSlots(shape) |-> s]
    /\ \A i \in Ids : zips[i] \in IF i <= NSlots(shape) THEN FirstArchivesOf(i) ELSE {NoZip}


(***************************************************************************)
(* RenderCache::load and the start of Generator::prepare.                  *)
(***************************************************************************)
Ok(v) == [ok |-> TRUE, value |-> v, err |-> NoError]
Err(e) == [ok |-> FALSE, value |-> RenderCacheDefault, err |-> e]

\* RenderCache::load
RenderCacheLoad(file) ==
    IF file.st = "absent" THEN Ok(RenderCacheDefault)
    ELSE IF file.st = "complete"
         THEN LET rc == [version |-> file.version, cache |-> file.cache]
              IN  IF IsCurrentVersion(rc) THEN Ok(rc) ELSE Ok(RenderCacheDefault)
         ELSE Err(Error(<<Ctx("Parsing render_cache file"), Ctx("EOF while parsing")>>))

\* A prepare that loads render_cache.json whatever the flag.
InitialCache_AlwaysLoad(nc, file) == RenderCacheLoad(file)

\* prepare: RenderCache::default() with no_cache, else RenderCache::load.
InitialCache(nc, file) == IF nc THEN Ok(RenderCacheDefault) ELSE RenderCacheLoad(file)

\* prepare, up to render_all_svgs: create the root, load the manifest and the
\* cache (or take the default with no_cache).
Prepare(nc) ==
    /\ pc \in BetweenRuns
    /\ runs < MaxRuns
    /\ runs' = runs + 1
    /\ no_cache' = nc
    /\ LET r == InitialCache(nc, cacheFile)
       IN  /\ render_cache' = r.value
           /\ cacheAtLoad' = r.value
           /\ err' = r.err
           /\ pc' = IF r.ok THEN "home" ELSE "failed"
    /\ tasks' = [i \in 1..Len(Docs) |-> Task(Docs[i])]
    /\ doc_svgs' = EmptyMap
    /\ failedDoc' = 0
    /\ asm' = 0
    /\ fileAtStart' = cacheFile
    /\ svgAtStart' = svg
    /\ opened' = {}
    /\ svgOps' = {}
    /\ UNCHANGED <<diskVars, envs, buildVars>>

(***************************************************************************)
(* Generator::render_doc_meta and render_notebook_zip, for the i-th        *)
(* element of Manifest::docs.                                              *)
(***************************************************************************)
\* The calls that may be running: home, then logo, then the fan-out.
Active(i) ==
    \/ pc = "home" /\ i = HomeIx
    \/ pc = "logo" /\ i = LogoIx
    \/ pc = "fanout" /\ i \in FanOut

Crop(i) == i = LogoIx

\* A test that takes a document not newer than its entry as up to date.
IsUpToDate_NotNewer(rc, doc) ==
    \E last_modified \in CacheGet(rc, doc.id) : last_modified >= doc.modified_client

\* A test that never finds a document up to date.
IsUpToDate_Never(rc, doc) ==
    \E last_modified \in CacheGet(rc, doc.id) : last_modified # last_modified

\* The test of render_doc_meta: an entry for the id, equal to the timestamp.
IsUpToDate(rc, doc) ==
    \E last_modified \in CacheGet(rc, doc.id) : last_modified = doc.modified_client

TaskUnchanged == UNCHANGED <<shape, idOf, stampOf, zips, cacheFile, site, pc, no_cache,
                             render_cache, doc_svgs, err, failedDoc, asm, runs,
                             envs, cacheAtLoad, fileAtStart, svgAtStart, buildVars>>

Decide(i) ==
    /\ Active(i)
    /\ tasks[i].st = "pending"
    /\ LET hit == IsUpToDate(render_cache, tasks[i].doc)
       IN  tasks' = [tasks EXCEPT ![i].hit = hit,
                                  ![i].st = IF hit THEN "list" ELSE "remove"]
    /\ UNCHANGED <<svg, opened, svgOps>>
    /\ TaskUnchanged

\* A page of the artifact list: the link <prefix>/svg/<id>/<stem>.svg.
Page(id, stem) == [id |-> id, stem |-> stem, link |-> SvgLink(SvgPath(id, stem))]

\* parse::<u16>() of a file stem
StemParses(stem) == stem \in 0..U16Max

RECURSIVE SortByStem(_)
SortByStem(S) ==
    IF S = {} THEN <<>>
    ELSE LET m == CHOOSE x \in S : \A y \in S : x.stem <= y.stem
         IN  <<m>> \o SortByStem(S \ {m})

\* sort_by_key calls the key function only to compare two elements.
SortPanics(pages) ==
    Cardinality(pages) >= 2 /\ \E p \in pages : ~StemParses(p.stem)

\* The hit branch: list svg/<id>/ and sort the paths by page number.
ListDir(i) ==
    /\ Active(i)
    /\ tasks[i].st = "list"
    /\ LET id == tasks[i].doc.id
           pages == { Page(id, f.stem) : f \in svg[id].files }
       IN  tasks' =
             IF ~svg[id].exists
             THEN [tasks EXCEPT ![i].st = "failed",
                                ![i].err = Error(<<Ctx("No such file or directory")>>)]
             ELSE IF SortPanics(pages)
             THEN [tasks EXCEPT ![i].st = "failed",
                                ![i].err = Panic("called Result::unwrap() on an Err value")]
             ELSE [tasks EXCEPT ![i].st = "done", ![i].pages = SortByStem(pages)]
    /\ UNCHANGED <<svg, opened, svgOps>>
    /\ TaskUnchanged

\* A render that leaves the old directory in place.
RemoveDir_Keeps(i) ==
    /\ Active(i)
    /\ tasks[i].st = "remove"
    /\ svgOps' = svgOps \cup {tasks[i].doc.id}
    /\ tasks' = [tasks EXCEPT ![i].st = "mkdir"]
    /\ UNCHANGED <<svg, opened>>
    /\ TaskUnchanged

\* render_notebook_zip: remove_dir_all(svg/<id>), its result ignored.
RemoveDir(i) ==
    /\ Active(i)
    /\ tasks[i].st = "remove"
    /\ svg' = [svg EXCEPT ![tasks[i].doc.id] = NoDir]
    /\ svgOps' = svgOps \cup {tasks[i].doc.id}
    /\ tasks' = [tasks EXCEPT ![i].st = "mkdir"]
    /\ UNCHANGED opened
    /\ TaskUnchanged

\* render_notebook_zip: create_dir_all(svg/<id>).
MkDir(i) ==
    /\ Active(i)
    /\ tasks[i].st = "mkdir"
    /\ svg' = [svg EXCEPT ![tasks[i].doc.id].exists = TRUE]
    /\ svgOps' = svgOps \cup {tasks[i].doc.id}
    /\ tasks' = [tasks EXCEPT ![i].st = "open"]
    /\ UNCHANGED opened
    /\ TaskUnchanged

RenderError(msg) == Error(<<Ctx("Rendering notebook zip"), Ctx(msg)>>)

\* render_notebook_zip: open the archive and scan it for the templates.
OpenZip(i) ==
    /\ Active(i)
    /\ tasks[i].st = "open"
    /\ opened' = opened \cup {tasks[i].doc.id}
    /\ tasks' =
         IF zips[tasks[i].doc.id].present
         THEN [tasks EXCEPT ![i].st = "page", ![i].k = 1]
         ELSE [tasks EXCEPT ![i].st = "failed", ![i].err = RenderError("Opening zip file")]
    /\ UNCHANGED <<svg, svgOps>>
    /\ TaskUnchanged

\* render_notebook_zip: one turn of the loop over the .rm entries, or its end.
RenderPage(i) ==
    /\ Active(i)
    /\ tasks[i].st = "page"
    /\ LET id == tasks[i].doc.id
           entries == zips[id].entries
           k == tasks[i].k
       IN  IF k > Len(entries)
           THEN /\ tasks' = [tasks EXCEPT ![i].st = "done"]
                /\ UNCHANGED <<svg, svgOps>>
           ELSE IF entries[k] = BadEntry
           THEN /\ tasks' = [tasks EXCEPT ![i].st = "failed",
                                          ![i].err = RenderError("Parsing .rm file")]
                /\ UNCHANGED <<svg, svgOps>>
           ELSE IF ~svg[id].exists
           THEN /\ tasks' = [tasks EXCEPT ![i].st = "failed",
                                          ![i].err = RenderError("Creating output file for svg")]
                /\ UNCHANGED <<svg, svgOps>>
           ELSE /\ svg' = [svg EXCEPT ![id].files =
                             { f \in @ : f.stem # entries[k] }
                             \cup {SvgFile(entries[k], tasks[i].doc.modified_client, Crop(i))}]
                /\ svgOps' = svgOps \cup {id}
                /\ tasks' = [tasks EXCEPT ![i].k = k + 1,
                                          ![i].pages = Append(@, Page(id, entries[k]))]
    /\ UNCHANGED opened
    /\ TaskUnchanged


(***************************************************************************)
(* Generator::render_all_svgs: home, logo, the fan-out over posts.docs(),  *)
(* the collect, and the recording of the timestamps.                       *)
(***************************************************************************)
\* BTreeMap::extend with the (id, value) pairs of a sequence: the last wins.
ExtendMap(map, ids, values) ==
    LET new == { ids[j] : j \in DOMAIN ids }
        last(id) == CHOOSE j \in DOMAIN ids :
                        ids[j] = id /\ \A l \in DOMAIN ids : ids[l] = id => l <= j
    IN  [id \in DOMAIN map \cup new |->
            IF id \in new THEN values[last(id)] ELSE map[id]]

DocIds(ixs) == [j \in 1..Len(ixs) |-> tasks[ixs[j]].doc.id]
DocPages(ixs) == [j \in 1..Len(ixs) |-> tasks[ixs[j]].pages]
DocStamps(ixs) == [j \in 1..Len(ixs) |-> tasks[ixs[j]].doc.modified_client]
FanOutSeq == [j \in 1..(Len(tasks) - 2) |-> j + 2]
AllSeq == [j \in 1..Len(tasks) |-> j]

\* How render_all_svgs and prepare wrap the error of the i-th call.
Wrapped(i) ==
    LET inner == IF i = HomeIx THEN WithContext(tasks[i].err, "Rendering index svg")
                 ELSE IF i = LogoIx THEN WithContext(tasks[i].err, "Rendering logo svg")
                 ELSE WithContext(WithContext(tasks[i].err, "Rendering document svg"),
                                  "Rendering documents")
    IN  WithContext(inner, "Rendering svg's")

OrchUnchanged == UNCHANGED <<diskVars, no_cache, asm, histVars, buildVars>>

\* The sequential calls for home and logo return.
Sequential(i) ==
    /\ Active(i)
    /\ i \in {HomeIx, LogoIx}
    /\ tasks[i].st \in {"done", "failed"}
    /\ IF tasks[i].st = "failed"
       THEN /\ pc' = "failed"
            /\ err' = Wrapped(i)
            /\ failedDoc' = i
            /\ UNCHANGED doc_svgs
       ELSE /\ pc' = IF i = HomeIx THEN "logo" ELSE "fanout"
            /\ doc_svgs' = IF i = LogoIx
                           THEN ExtendMap(doc_svgs, DocIds(<<HomeIx, LogoIx>>),
                                          DocPages(<<HomeIx, LogoIx>>))
                           ELSE doc_svgs
            /\ UNCHANGED <<err, failedDoc>>
    /\ UNCHANGED <<tasks, render_cache>>
    /\ OrchUnchanged

\* rayon: once a task has failed, tasks not yet started need not start.
Skip(i) ==
    /\ pc = "fanout"
    /\ i \in FanOut
    /\ tasks[i].st = "pending"
    /\ \E j \in FanOut : tasks[j].st = "failed"
    /\ tasks' = [tasks EXCEPT ![i].st = "skipped"]
    /\ UNCHANGED <<pc, render_cache, doc_svgs, err, failedDoc>>
    /\ OrchUnchanged

\* A join that returns as soon as one task has ended.
AllEnded_SomeEnded(ts) == \E i \in 3..Len(ts) : ts[i].st \in Ended

\* collect::<Result<Vec<_>>>() returns when no task is left to run.
AllEnded(ts) == \A i \in 3..Len(ts) : ts[i].st \in Ended

\* A panic of a task is resumed on the caller; else one of the errors is kept.
Kept(i) ==
    /\ i \in FanOut
    /\ tasks[i].st = "failed"
    /\ (\E j \in FanOut : tasks[j].err.kind = "panic") => tasks[i].err.kind = "panic"

Join ==
    /\ pc = "fanout"
    /\ AllEnded(tasks)
    /\ IF \A i \in FanOut : tasks[i].st # "failed"
       THEN /\ doc_svgs' = ExtendMap(doc_svgs, DocIds(FanOutSeq), DocPages(FanOutSeq))
            /\ pc' = "extend"
            /\ UNCHANGED <<err, failedDoc>>
       ELSE /\ \E i \in FanOut :
                 /\ Kept(i)
                 /\ err' = Wrapped(i)
                 /\ failedDoc' = i
            /\ pc' = "failed"
            /\ UNCHANGED doc_svgs
    /\ UNCHANGED <<tasks, render_cache>>
    /\ OrchUnchanged

\* The timestamps recorded before the fan-out has been joined.
RecordStamps_BeforeJoin ==
    /\ pc \in {"fanout", "extend"}
    /\ render_cache' = [render_cache EXCEPT
                           !.cache = ExtendMap(@, DocIds(AllSeq), DocStamps(AllSeq))]
    /\ pc' = IF pc = "extend" THEN "assemble" ELSE pc
    /\ UNCHANGED <<tasks, doc_svgs, err, failedDoc>>
    /\ OrchUnchanged

\* The timestamps of the posts documents alone recorded.
RecordStamps_PostsOnly ==
    /\ pc = "extend"
    /\ render_cache' = [render_cache EXCEPT
                           !.cache = ExtendMap(@, DocIds(FanOutSeq), DocStamps(FanOutSeq))]
    /\ pc' = "assemble"
    /\ UNCHANGED <<tasks, doc_svgs, err, failedDoc>>
    /\ OrchUnchanged

\* The timestamps recorded and the file written at once, before gen_index.
RecordStamps_AndSave ==
    /\ pc = "extend"
    /\ render_cache' = [render_cache EXCEPT
                           !.cache = ExtendMap(@, DocIds(AllSeq), DocStamps(AllSeq))]
    /\ cacheFile' = CompleteFile(render_cache')
    /\ pc' = "assemble"
    /\ UNCHANGED <<tasks, doc_svgs, err, failedDoc>>
    /\ UNCHANGED <<shape, idOf, stampOf, zips, svg, site, no_cache, asm, histVars, buildVars>>

\* render_cache.cache.extend(manifest.docs() ...); prepare returns the Generator.
RecordStamps ==
    /\ pc = "extend"
    /\ render_cache' = [render_cache EXCEPT
                           !.cache = ExtendMap(@, DocIds(AllSeq), DocStamps(AllSeq))]
    /\ pc' = "assemble"
    /\ UNCHANGED <<tasks, doc_svgs, err, failedDoc>>
    /\ OrchUnchanged


(***************************************************************************)
(* Generator::gen_index, gen_folder, gen_doc: the assembly, as the         *)
(* sequence of directory creations and template renders the walk makes.    *)
(***************************************************************************)
Crumb(name, link) == [name |-> name, link |-> link]

RECURSIVE Flatten(_)
Flatten(ss) == IF ss = <<>> THEN <<>> ELSE Head(ss) \o Flatten(Tail(ss))

\* gen_doc: parent.join(format!("{}.html", sanitized_name))
DocPath(parent, doc) == parent \o <<sanitize(doc.name) \o DotHtml>>

\* A document page whose back link is the first crumb's.
GenDoc_BackHome(m, breadcrumbs, parent, doc) ==
    [op          |-> "document",
     path        |-> DocPath(parent, doc),
     name        |-> doc.name,
     breadcrumbs |-> breadcrumbs,
     back_link   |-> breadcrumbs[1].link,
     documents   |-> <<>>,
     folders     |-> <<>>,
     pagesOf     |-> {doc.id},
     firstOf     |-> {m.logo.id},
     logo        |-> m.logo.id]

\* gen_doc: the render of one document page.
GenDoc(m, breadcrumbs, parent, doc) ==
    [op          |-> "document",
     path        |-> DocPath(parent, doc),
     name        |-> doc.name,
     breadcrumbs |-> breadcrumbs,
     back_link   |-> breadcrumbs[Len(breadcrumbs)].link,
     documents   |-> <<>>,
     folders     |-> <<>>,
     pagesOf     |-> {doc.id},
     firstOf     |-> {m.logo.id},
     logo        |-> m.logo.id]

Listing(parent, documents) ==
    LET ks == Keys(documents)
    IN  [j \in 1..Len(ks) |->
            [name |-> documents[ks[j]].name,
             id   |-> documents[ks[j]].id,
             link |-> relative_to_root(DocPath(parent, documents[ks[j]]))]]

FolderHtml(parent, folder) == parent \o <<sanitize(folder) \o DotHtml>>

FolderListing(parent, folders) ==
    LET ks == Keys(folders)
    IN  [j \in 1..Len(ks) |->
            [name |-> ks[j], link |-> relative_to_root(FolderHtml(parent, ks[j]))]]

\* gen_folder: the directory, the documents, the sub-folders, then the page.
RECURSIVE GenFolder(_, _, _, _, _)
GenFolder(m, breadcrumbs, parent, folder, posts) ==
    LET folder_path == parent \o <<sanitize(folder)>>
        folder_link == relative_to_root(FolderHtml(parent, folder))
        for_children == Append(breadcrumbs, Crumb(folder, folder_link))
        dk == Keys(posts.documents)
        fk == Keys(posts.folders)
    IN  <<[op |-> "mkdir", path |-> folder_path]>>
        \o [j \in 1..Len(dk) |->
               GenDoc(m, for_children, folder_path, posts.documents[dk[j]])]
        \o Flatten([j \in 1..Len(fk) |->
               GenFolder(m, for_children, folder_path, fk[j], posts.folders[fk[j]])])
        \o <<[op          |-> "folder",
              path        |-> FolderHtml(parent, folder),
              name        |-> folder,
              breadcrumbs |-> breadcrumbs,
              back_link   |-> breadcrumbs[Len(breadcrumbs)].link,
              documents   |-> Listing(folder_path, posts.documents),
              folders     |-> FolderListing(folder_path, posts.folders),
              pagesOf     |-> {},
              firstOf     |-> {m.logo.id}
                              \cup { posts.documents[n].id : n \in DOMAIN posts.documents },
              logo        |-> m.logo.id]>>

\* gen_index, up to the save of the cache.
GenIndex(m) ==
    LET posts_path == root \o <<StrPosts>>
        breadcrumbs == <<Crumb(StrHome, prefix)>>
        dk == Keys(m.posts.documents)
        fk == Keys(m.posts.folders)
    IN  <<[op |-> "mkdir", path |-> posts_path]>>
        \o [j \in 1..Len(dk) |->
               GenDoc(m, breadcrumbs, posts_path, m.posts.documents[dk[j]])]
        \o Flatten([j \in 1..Len(fk) |->
               GenFolder(m, breadcrumbs, posts_path, fk[j], m.posts.folders[fk[j]])])
        \o <<[op          |-> "index",
              path        |-> root \o <<StrIndex \o DotHtml>>,
              name        |-> StrHome,
              breadcrumbs |-> <<>>,
              back_link   |-> <<>>,
              documents   |-> Listing(posts_path, m.posts.documents),
              folders     |-> FolderListing(posts_path, m.posts.folders),
              pagesOf     |-> {m.home.id},
              firstOf     |-> {m.logo.id}
                              \cup { m.posts.documents[n].id : n \in DOMAIN m.posts.documents },
              logo        |-> m.logo.id],
             [op |-> "css", path |-> root \o <<StrStyle>>]>>

\* doc_pages indexes the map and doc_first_page indexes the list: both panic.
LookupPanics(step, svgs) ==
    /\ step.op \in {"document", "folder", "index"}
    /\ \/ \E id \in step.pagesOf \cup step.firstOf : id \notin DOMAIN svgs
       \/ \E id \in step.firstOf : id \in DOMAIN svgs /\ svgs[id] = <<>>

\* What a template render leaves in the file: its parameters and the nonce.
Rendered(step, svgs, nonce) ==
    [path        |-> step.path,
     template    |-> step.op,
     name        |-> step.name,
     breadcrumbs |-> step.breadcrumbs,
     back_link   |-> step.back_link,
     logo        |-> svgs[step.logo][1].link,
     documents   |-> [j \in DOMAIN step.documents |->
                         [name |-> step.documents[j].name,
                          svg  |-> svgs[step.documents[j].id][1].link,
                          link |-> step.documents[j].link]],
     folders     |-> step.folders,
     pages       |-> IF step.pagesOf = {} THEN <<>>
                     ELSE LET ps == svgs[CHOOSE id \in step.pagesOf : TRUE]
                          IN  [j \in DOMAIN ps |-> ps[j].link],
     build_nonce |-> nonce]

StyleCss == [path |-> root \o <<StrStyle>>, template |-> "css", name |-> <<>>,
             breadcrumbs |-> <<>>, back_link |-> <<>>, logo |-> <<>>, documents |-> <<>>,
             folders |-> <<>>, pages |-> <<>>, build_nonce |-> 0]

WriteFile(s, file) ==
    [s EXCEPT !.files = { f \in @ : f.path # file.path } \cup {file}]

\* One step of gen_index: a create_dir_all, a template render or the css copy.
Assemble ==
    /\ pc = "assemble"
    /\ LET plan == GenIndex(manifest)
           step == plan[asm + 1]
       IN  IF LookupPanics(step, doc_svgs)
           THEN /\ pc' = "failed"
                /\ err' = Panic("index out of bounds")
                /\ UNCHANGED <<site, asm>>
           ELSE /\ site' = IF step.op = "mkdir"
                           THEN [site EXCEPT !.dirs = @ \cup {step.path}]
                           ELSE IF step.op = "css" THEN WriteFile(site, StyleCss)
                           ELSE WriteFile(site, Rendered(step, doc_svgs, runs))
                /\ asm' = asm + 1
                /\ pc' = IF asm + 1 = Len(plan) THEN "save" ELSE "assemble"
                /\ UNCHANGED err
    /\ UNCHANGED <<shape, idOf, stampOf, zips, cacheFile, svg, no_cache, render_cache,
                   tasks, doc_svgs, failedDoc, histVars, buildVars>>

(***************************************************************************)
(* RenderCache::save, the end of gen_index.                                *)
(***************************************************************************)
SaveUnchanged == UNCHANGED <<shape, idOf, stampOf, zips, svg, site, no_cache, render_cache,
                             tasks, doc_svgs, err, failedDoc, asm, histVars, buildVars>>

\* File::create(render_cache.json): the file is there and empty.
SaveCreate ==
    /\ pc = "save"
    /\ cacheFile' = [cacheFile EXCEPT !.st = "truncated"]
    /\ pc' = "save_write"
    /\ SaveUnchanged

\* to_writer_pretty writes the JSON to the file piece by piece.
SaveWrite ==
    /\ pc = "save_write"
    /\ cacheFile' = [cacheFile EXCEPT !.st = "partial"]
    /\ pc' = "save_end"
    /\ SaveUnchanged

SaveEnd ==
    /\ pc = "save_end"
    /\ cacheFile' = CompleteFile(render_cache)
    /\ pc' = "done"
    /\ SaveUnchanged


(***************************************************************************)
(* The process may be killed at any point of a run: its memory is gone,    *)
(* the disk stays as it is.                                                *)
(***************************************************************************)
NoProcess ==
    /\ no_cache' = FALSE
    /\ tasks' = <<>>
    /\ doc_svgs' = EmptyMap
    /\ err' = NoError
    /\ failedDoc' = 0
    /\ asm' = 0
    /\ cacheAtLoad' = RenderCacheDefault
    /\ svgAtStart' = [i \in Ids |-> NoDir]
    /\ opened' = {}
    /\ svgOps' = {}

Interrupt ==
    /\ pc \notin BetweenRuns
    /\ envs < MaxEnv
    /\ envs' = envs + 1
    /\ pc' = "crashed"
    /\ NoProcess
    /\ UNCHANGED <<diskVars, render_cache, fileAtStart, runs, buildVars>>

(***************************************************************************)
(* Between two runs: a fetch brings a new version of a document, the       *)
(* build directory is changed from outside, the program is upgraded.       *)
(***************************************************************************)
Between ==
    /\ pc \in BetweenRuns
    /\ envs < MaxEnv
    /\ envs' = envs + 1
    /\ pc' = "idle"
    /\ NoProcess
    /\ render_cache' = RenderCacheDefault
    /\ fileAtStart' = NoFile
    /\ UNCHANGED <<shape, idOf, site, runs, buildVars>>

Fetch(s, t, a) ==
    /\ Between
    /\ t # stampOf[s]
    /\ stampOf' = [stampOf EXCEPT ![s] = t]
    /\ zips' = [zips EXCEPT ![idOf[s]] = a]
    /\ UNCHANGED <<cacheFile, svg>>

RemoveSvgDir(id) ==
    /\ Between
    /\ svg[id].exists
    /\ svg' = [svg EXCEPT ![id] = NoDir]
    /\ UNCHANGED <<stampOf, zips, cacheFile>>

StrayFile(id) ==
    /\ Between
    /\ svg[id].exists
    /\ svg' = [svg EXCEPT ![id].files = @ \cup {SvgFile(BadStem, 1, FALSE)}]
    /\ UNCHANGED <<stampOf, zips, cacheFile>>

\* A page image is renamed to a name that is no page number.
RenamePage(id) ==
    /\ Between
    /\ \E f \in svg[id].files :
          /\ StemParses(f.stem)
          /\ svg' = [svg EXCEPT ![id].files = (@ \ {f}) \cup {[f EXCEPT !.stem = BadStem]}]
    /\ UNCHANGED <<stampOf, zips, cacheFile>>

\* The file was written by a build of another version.
Upgrade ==
    /\ Between
    /\ cacheFile.st = "complete"
    /\ cacheFile.version = CRATE_VERSION
    /\ cacheFile' = [cacheFile EXCEPT !.version = OtherVersion]
    /\ UNCHANGED <<stampOf, zips, svg>>

Next ==
    \/ \E nc \in BOOLEAN : Prepare(nc)
    \/ \E i \in Calls : Decide(i)
    \/ \E i \in Calls : ListDir(i)
    \/ \E i \in Calls : RemoveDir(i)
    \/ \E i \in Calls : MkDir(i)
    \/ \E i \in Calls : OpenZip(i)
    \/ \E i \in Calls : RenderPage(i)
    \/ \E i \in Calls : Sequential(i)
    \/ \E i \in Calls : Skip(i)
    \/ Join
    \/ RecordStamps
    \/ Assemble
    \/ SaveCreate
    \/ SaveWrite
    \/ SaveEnd
    \/ \E s \in DOMAIN stampOf, t \in Times : \E a \in ArchivesOf(s) : Fetch(s, t, a)
    \/ \E id \in Ids : RemoveSvgDir(id)
    \/ \E id \in Ids : StrayFile(id)
    \/ \E id \in Ids : RenamePage(id)
    \/ Upgrade

Spec == Init /\ [][Next]_vars

\* The same, with a process that may be killed.
NextKill == Next \/ Interrupt
SpecKill == Init /\ [][NextKill]_vars

\* Any manifest.json that deserializes: documents of the posts tree may
\* carry the same id.
InitAny ==
    /\ InitCommon
    /\ idOf \in [1..NSlots(shape) -> Ids]
    /\ idOf[1] = 1 /\ idOf[2] = 2
    /\ \A s \in 3..NSlots(shape) : idOf[s] > 2
    /\ \A i \in Ids : zips[i] \in FirstArchivesOf(i)

SpecAny == InitAny /\ [][Next]_vars

\* Runs and fetches alone: nothing but the program writes under the root.
NextRuns ==
    \/ \E nc \in BOOLEAN : Prepare(nc)
    \/ \E i \in Calls : Decide(i)
    \/ \E i \in Calls : ListDir(i)
    \/ \E i \in Calls : RemoveDir(i)
    \/ \E i \in Calls : MkDir(i)
    \/ \E i \in Calls : OpenZip(i)
    \/ \E i \in Calls : RenderPage(i)
    \/ \E i \in Calls : Sequential(i)
    \/ \E i \in Calls : Skip(i)
    \/ Join
    \/ RecordStamps
    \/ Assemble
    \/ SaveCreate
    \/ SaveWrite
    \/ SaveEnd
    \/ \E s \in DOMAIN stampOf, t \in Times : \E a \in ArchivesOf(s) : Fetch(s, t, a)
    \/ Upgrade

SpecRuns == Init /\ [][NextRuns]_vars

\* The trees of TreeShapes, each document with a one-page archive.
InitTree ==
    /\ shape \in TreeShapes
    /\ idOf = [s \in 1..NSlots(shape) |-> s]
    /\ stampOf = [s \in 1..NSlots(shape) |-> 1]
    /\ zips = [i \in Ids |-> IF i <= NSlots(shape) THEN Zip(<<0>>) ELSE NoZip]
    /\ cacheFile = NoFile
    /\ svg = [i \in Ids |-> NoDir]
    /\ site = [dirs |-> {}, files |-> {}]
    /\ pc = "idle"
    /\ no_cache = FALSE
    /\ render_cache = RenderCacheDefault
    /\ tasks = <<>>
    /\ doc_svgs = EmptyMap
    /\ err = NoError
    /\ failedDoc = 0
    /\ asm = 0
    /\ runs = 0 /\ envs = 0
    /\ cacheAtLoad = RenderCacheDefault
    /\ fileAtStart = NoFile
    /\ svgAtStart = svg
    /\ opened = {}
    /\ svgOps = {}
    /\ NoBuild

SpecTree == InitTree /\ [][Next]_vars

(***************************************************************************)
(* Manifest::build over the accounts made of the records of Account, and   *)
(* over the specifiers of Specifiers.                                      *)
(***************************************************************************)
Stamp(id) == 1 + (id % MaxTime)
Folder(id, parent, name) == Document(id, parent, CollectionType, name, Stamp(id))
Notebook(id, parent, name) == Document(id, parent, DocumentType, name, Stamp(id))

Account ==
    { Folder(1, ParentRoot, StrSite),
      Folder(2, ParentRoot, StrSite),
      Notebook(3, ParentNode(1), StrHome),
      Notebook(4, ParentNode(1), StrHome),
      Notebook(5, ParentNode(1), StrLogo),
      Folder(6, ParentNode(1), StrPostsFolder),
      Notebook(7, ParentNode(6), NameA),
      Notebook(8, ParentNode(6), NameA),
      Folder(9, ParentNode(6), NameF),
      Notebook(10, ParentNode(9), NameB),
      Folder(11, ParentNode(1), StrHome),
      Notebook(12, ParentRoot, StrSite),
      Notebook(13, ParentNode(1), StrLogo),
      Folder(14, ParentNode(1), StrPostsFolder) }

\* An id no record has.
NoSuchId == 15

Specifiers == {StrSite, IdSeg(1), IdSeg(2), IdSeg(3), IdSeg(NoSuchId)}

InitBuild ==
    /\ specifier \in Specifiers
    /\ cloud \in SUBSET Account
    /\ built = NotBuilt
    /\ shape = ShapeNest
    /\ idOf = [s \in 1..NSlots(shape) |-> s]
    /\ stampOf = [s \in 1..NSlots(shape) |-> 1]
    /\ zips = [i \in Ids |-> NoZip]
    /\ cacheFile = NoFile
    /\ svg = [i \in Ids |-> NoDir]
    /\ site = [dirs |-> {}, files |-> {}]
    /\ pc = "idle"
    /\ no_cache = FALSE
    /\ render_cache = RenderCacheDefault
    /\ tasks = <<>>
    /\ doc_svgs = EmptyMap
    /\ err = NoError
    /\ failedDoc = 0
    /\ asm = 0
    /\ runs = 0 /\ envs = 0
    /\ cacheAtLoad = RenderCacheDefault
    /\ fileAtStart = NoFile
    /\ svgAtStart = svg
    /\ opened = {}
    /\ svgOps = {}

\* One call of Manifest::build.
Build ==
    /\ built = NotBuilt
    /\ \E ord \in Orders : built' = ManifestBuild(specifier, cloud, ord)
    /\ UNCHANGED <<specifier, cloud, diskVars, genVars, histVars>>

NextBuild == Build

SpecBuild == InitBuild /\ [][NextBuild]_vars

TypeOK ==
    /\ pc \in {"idle", "home", "logo", "fanout", "extend", "assemble", "save",
               "save_write", "save_end", "done", "failed", "crashed"}
    /\ cacheFile.st \in {"absent", "complete", "truncated", "partial"}


(***************************************************************************)
(* Properties.                                                             *)
(***************************************************************************)
Decided(i) == tasks[i].st \notin {"pending", "skipped"}
RenderPath == {"remove", "mkdir", "open", "page"}

\* The document of call i against the cache as it was loaded.
HasEntry(i) == tasks[i].doc.id \in DOMAIN cacheAtLoad.cache
EntryOf(i) == cacheAtLoad.cache[tasks[i].doc.id]
EntryEqual(i) == HasEntry(i) /\ EntryOf(i) = tasks[i].doc.modified_client

\* Call i took the branch that lists the directory / the branch that renders.
TookListing(i) == tasks[i].st = "list" \/ (tasks[i].st \in {"done", "failed"} /\ tasks[i].hit)
TookRender(i) == tasks[i].st \in RenderPath \/ (tasks[i].st \in {"done", "failed"} /\ ~tasks[i].hit)

\* C1: render_doc_meta takes the document as up to date (lists the existing
\* directory, no render) exactly when the cache has an entry for its id whose
\* timestamp equals the document's; in every other case (no entry, document
\* newer, document older) render_notebook_zip runs.
C1_UpToDateIffEqual ==
    \A i \in Calls :
        Decided(i) =>
            /\ TookListing(i) <=> EntryEqual(i)
            /\ TookRender(i) <=> ~EntryEqual(i)
            /\ TookListing(i) => tasks[i].k = 0
            /\ tasks[i].st \in {"mkdir", "open", "page"} => tasks[i].doc.id \in svgOps

\* A run with a hit, and with a render of a document older than its entry.
C1_Witness ==
    \E i, j \in Calls :
        /\ tasks[i].st = "done" /\ TookListing(i) /\ EntryEqual(i)
        /\ tasks[j].st = "done" /\ TookRender(j)
        /\ HasEntry(j) /\ EntryOf(j) > tasks[j].doc.modified_client

\* C2: after a successful run (prepare, then gen_index) render_cache.json
\* maps the id of every document of the manifest to its current timestamp,
\* for hits and for fresh renders alike.
C2_CacheRecordsAll ==
    pc = "done" =>
        /\ cacheFile.st = "complete"
        /\ \A i \in 1..Len(Docs) :
              /\ Docs[i].id \in DOMAIN cacheFile.cache
              /\ cacheFile.cache[Docs[i].id] = Docs[i].modified_client

\* A successful run in which home was rendered and another document was a hit.
C2_Witness ==
    /\ pc = "done"
    /\ TookRender(HomeIx)
    /\ \E i \in Calls : TookListing(i)

\* A run is on, and the loaded cache has an equal entry for every document.
AllEqual == tasks # <<>> /\ \A i \in Calls : EntryEqual(i)

\* C3: when the loaded cache has, for every document, an entry equal to its
\* timestamp, the run changes nothing under svg/ and opens no archive: every
\* page list is the listing of the directory as it was.
C3_AllHitsTouchNothing ==
    AllEqual =>
        /\ svg = svgAtStart
        /\ svgOps = {}
        /\ opened = {}
        /\ \A i \in Calls :
              tasks[i].st = "done" =>
                  { tasks[i].pages[j] : j \in DOMAIN tasks[i].pages }
                      = { Page(tasks[i].doc.id, f.stem) : f \in svgAtStart[tasks[i].doc.id].files }

\* A successful run of hits alone, over directories that hold pages.
C3_Witness ==
    /\ pc = "done"
    /\ AllEqual
    /\ \A i \in Calls : tasks[i].pages # <<>>

\* The run started over a render_cache.json with another version tag.
OtherTag == fileAtStart.st = "complete" /\ fileAtStart.version # CRATE_VERSION

\* C5: a render_cache.json with another version tag loads as the empty
\* cache, so every document is a miss and is rendered, whatever the entries.
C5_VersionMismatchDiscards ==
    (tasks # <<>> /\ ~no_cache /\ OtherTag) =>
        /\ cacheAtLoad = RenderCacheDefault
        /\ \A i \in Calls : Decided(i) => TookRender(i)
        /\ pc = "done" => \A i \in Calls : tasks[i].doc.id \in opened

\* A successful run over a file of another version whose entries all equal
\* the documents' timestamps.
C5_Witness ==
    /\ pc = "done"
    /\ ~no_cache
    /\ OtherTag
    /\ \A i \in Calls :
          /\ tasks[i].doc.id \in DOMAIN fileAtStart.cache
          /\ fileAtStart.cache[tasks[i].doc.id] = tasks[i].doc.modified_client


\* The directory a hit lists cannot back it: it is missing, or one of its
\* files has a stem that is no page number.
Unbacked(dir) == ~dir.exists \/ \E f \in dir.files : ~StemParses(f.stem)

\* The error is reported as a corruption of the cache, apart from the rest.
ReportsCorruption(e) ==
    /\ e.kind = "error"
    /\ \E j \in DOMAIN e.chain : e.chain[j].msg = "Cache corruption"

\* C4: a hit whose directory svg/<id>/ is missing, or holds a file whose
\* stem is no page number, ends the run with a fatal error reported as cache
\* corruption, apart from other errors; it never falls back to a render.
C4_CorruptHitIsFatal ==
    \A i \in Calls :
        (tasks[i].st \in {"done", "failed"} /\ TookListing(i)
            /\ Unbacked(svgAtStart[tasks[i].doc.id])) =>
                /\ tasks[i].st = "failed"
                /\ ReportsCorruption(tasks[i].err)
                /\ tasks[i].doc.id \notin opened

\* C6: render_cache.json is replaced atomically: if the run is killed at any
\* step of RenderCache::save the file is the complete previous cache or the
\* complete new one, never empty or partly written.
C6_AtomicSave ==
    pc = "crashed" =>
        /\ cacheFile.st \notin {"truncated", "partial"}
        /\ cacheFile = fileAtStart \/ cacheFile = CompleteFile(render_cache)

\* gen_index has been called.
Assembling == pc \in {"assemble", "save", "save_write", "save_end", "done"} \/ asm > 0

\* C7: the assembler writes nothing while a render task of the fan-out is
\* running: it starts after every render has ended well, and never in a run
\* in which a render failed.
C7_AssembleAfterBarrier ==
    Assembling =>
        /\ tasks # <<>>
        /\ \A i \in Calls : tasks[i].st = "done"
        /\ \A i \in Calls : tasks[i].doc.id \in DOMAIN doc_svgs

\* The assembler has written pages after a fan-out of two renders.
C7_Witness ==
    /\ asm > 1
    /\ \E i, j \in FanOut : i # j /\ TookRender(i) /\ TookRender(j)

\* C8: the in-memory cache is not changed while a render runs: each render
\* reads the cache as loaded, and the timestamps are recorded once, by the
\* orchestrator, after all tasks of the fan-out have ended.
C8_CacheFixedWhileRendering ==
    /\ (pc \in {"home", "logo", "fanout"} \/ \E i \in Calls : tasks[i].st \in Running)
          => render_cache = cacheAtLoad
    /\ (tasks # <<>> /\ render_cache # cacheAtLoad)
          => \A i \in Calls : tasks[i].st = "done"

\* One task of the fan-out has ended and another is rendering, over a cache
\* that had entries, and differs from what will be recorded.
C8_Witness ==
    /\ pc = "fanout"
    /\ cacheAtLoad.cache # EmptyMap
    /\ \E i \in Calls : HasEntry(i) /\ ~EntryEqual(i)
    /\ \E i, j \in FanOut : tasks[i].st = "done" /\ tasks[j].st \in RenderPath

\* C9: for every manifest the generator accepts, no two render tasks of the
\* fan-out remove, create or write files in the same directory svg/<id>/.
C9_DisjointDirectories ==
    \A i, j \in FanOut :
        (i # j /\ tasks[i].st \in RenderPath /\ tasks[j].st \in RenderPath)
            => tasks[i].doc.id # tasks[j].doc.id

\* The error names the document: its id is among the values of a context.
NamesDocument(e, doc) == \E j \in DOMAIN e.chain : doc.id \in e.chain[j].args

\* C10: when the render of a document fails in the fan-out, the render phase
\* fails as a whole (no artifact map, no assembly) and the error that reaches
\* the caller identifies the document whose render failed.
C10_FailFastNamesDocument ==
    (\E i \in FanOut : tasks[i].st = "failed" /\ pc \notin {"fanout", "crashed"}) =>
        /\ pc = "failed"
        /\ asm = 0
        /\ failedDoc \in FanOut
        /\ NamesDocument(err, tasks[failedDoc].doc)

\* The stems of a page list, in the order of the list.
Stems(pages) == [j \in DOMAIN pages |-> pages[j].stem]
Ascending(ns) == \A j, k \in DOMAIN ns : j < k => ns[j] < ns[k]

\* C11: the page list of every document, from a listing of the directory or
\* from a render of the archive (whatever the order of its entries), is in
\* ascending order of page number: the element at index i is page i.
C11_PagesInNumericOrder ==
    /\ \A i \in Calls : tasks[i].st = "done" => Ascending(Stems(tasks[i].pages))
    /\ \A id \in DOMAIN doc_svgs : Ascending(Stems(doc_svgs[id]))

\* C19: in a run with no_cache every document is rendered from its archive,
\* whatever render_cache.json holds: the run starts from the empty cache.
C19_NoCacheRendersAll ==
    (tasks # <<>> /\ no_cache) =>
        /\ cacheAtLoad = RenderCacheDefault
        /\ \A j \in DOMAIN err.chain : err.chain[j].msg # "Parsing render_cache file"
        /\ \A i \in Calls : Decided(i) => TookRender(i)
        /\ \A i \in Calls : (Decided(i) /\ tasks[i].st # "remove") => tasks[i].doc.id \in svgOps
        /\ pc = "done" => \A i \in Calls : tasks[i].doc.id \in opened

\* A successful no_cache run over a render_cache.json of the current version
\* whose entries all equal the documents' timestamps.
C19_Witness ==
    /\ pc = "done"
    /\ no_cache
    /\ fileAtStart.st = "complete" /\ fileAtStart.version = CRATE_VERSION
    /\ \A i \in Calls :
          /\ tasks[i].doc.id \in DOMAIN fileAtStart.cache
          /\ fileAtStart.cache[tasks[i].doc.id] = tasks[i].doc.modified_client

\* The page numbers of the .rm entries of an archive.
EntryStems(zip) == { zip.entries[k] : k \in DOMAIN zip.entries }

\* C20: after a successful render of a document from its archive, svg/<id>/
\* holds one image per .rm entry of the archive, rendered from this version,
\* and nothing else: no image of an earlier render is left.
C20_MissRecreatesDirectory ==
    \A i \in Calls :
        (tasks[i].st = "done" /\ TookRender(i)) =>
            LET id == tasks[i].doc.id
            IN  /\ svg[id].exists
                /\ { f.stem : f \in svg[id].files } = EntryStems(zips[id])
                /\ Cardinality(svg[id].files) = Len(zips[id].entries)
                /\ \A f \in svg[id].files :
                       f = SvgFile(f.stem, tasks[i].doc.modified_client, Crop(i))

\* A document whose earlier render left a page 1 is rendered again from an
\* archive that has page 0 alone.
C20_Witness ==
    \E i \in Calls :
        /\ tasks[i].st = "done" /\ TookRender(i)
        /\ \E f \in svgAtStart[tasks[i].doc.id].files : f.stem = 1
        /\ zips[tasks[i].doc.id] = Zip(<<0>>)

(***************************************************************************)
(* The output tree, told from the posts tree alone.                        *)
(***************************************************************************)
\* The nodes of a posts tree: kind, the names of the ancestor folders from
\* the top, and the name.
RECURSIVE PostsNodes(_, _)
PostsNodes(posts, anc) ==
    { [kind |-> "document", anc |-> anc, name |-> posts.documents[n].name,
       id |-> posts.documents[n].id] : n \in DOMAIN posts.documents }
    \cup { [kind |-> "folder", anc |-> anc, name |-> n, id |-> 0] : n \in DOMAIN posts.folders }
    \cup UNION { PostsNodes(posts.folders[n], Append(anc, n)) : n \in DOMAIN posts.folders }

Nodes == PostsNodes(manifest.posts, <<>>)

\* <root>/posts/<ancestors>, each name with its non-alphanumerics as dashes.
Segment(name) == [i \in 1..Len(name) |-> IF IsAsciiAlphanumeric(name[i]) THEN name[i] ELSE Dash]
OutDir(anc) == root \o <<StrPosts>> \o [j \in 1..Len(anc) |-> Segment(anc[j])]
OutPath(n) == OutDir(n.anc) \o <<Segment(n.name)>>
OutHtml(n) == OutDir(n.anc) \o <<Segment(n.name) \o DotHtml>>

\* The link of a path under the root.
LinkOf(path) == prefix \o Tail(path)

\* The page written for node n, if any.
PageOf(n) == { f \in site.files : f.path = OutHtml(n) /\ f.template = n.kind /\ f.name = n.name }

\* C12: after a successful gen_index every folder of the posts tree at output
\* path P has the directory P and its page P.html, and every document at
\* output path P has its page P.html and P is no directory.
C12_TreeMirrored ==
    pc = "done" =>
        \A n \in Nodes :
            /\ PageOf(n) # {}
            /\ n.kind = "folder" => OutPath(n) \in site.dirs
            /\ n.kind = "document" => OutPath(n) \notin site.dirs

\* [Home, A1, ..., An] with the links of index and of A1.html, ..., An.html.
Trail(anc) ==
    <<Crumb(StrHome, prefix)>>
    \o [j \in 1..Len(anc) |->
           Crumb(anc[j], LinkOf(OutDir(SubSeq(anc, 1, j - 1)) \o <<Segment(anc[j]) \o DotHtml>>))]

\* C13: the page of every node of the posts tree under the folders
\* [A1..An] was rendered with the breadcrumbs [Home, A1, ..., An], each with
\* the link of its page, and with the back link of the last of them.
C13_Breadcrumbs ==
    \A n \in Nodes : \A f \in PageOf(n) :
        /\ f.breadcrumbs = Trail(n.anc)
        /\ f.back_link = Trail(n.anc)[Len(n.anc) + 1].link
        /\ n.anc = <<>> => f.back_link = prefix

\* The page of a document under the folders [A, F 1] is written: its trail
\* is [Home, A, F 1] and its back link is the link of F-1.html.
C13_Witness ==
    \E n \in Nodes : \E f \in PageOf(n) :
        /\ n.kind = "document"
        /\ n.anc = <<NameA, NameF>>
        /\ Len(f.breadcrumbs) = 3
        /\ f.back_link = <<PrefixSeg, StrPosts, NameA, <<70, 45, 49>> \o DotHtml>>

\* The links a template was given: documents, folders, breadcrumbs, the
\* back link, the page images, the thumbnails and the logo.
LinksOf(f) ==
    { f.documents[j].link : j \in DOMAIN f.documents }
    \cup { f.documents[j].svg : j \in DOMAIN f.documents }
    \cup { f.folders[j].link : j \in DOMAIN f.folders }
    \cup { f.breadcrumbs[j].link : j \in DOMAIN f.breadcrumbs }
    \cup (IF f.template = "index" THEN {} ELSE {f.back_link})
    \cup { f.pages[j] : j \in DOMAIN f.pages }
    \cup {f.logo}

Templated == { f \in site.files : f.template \in {"document", "folder", "index"} }

\* The files and directories under the root.
OnDisk(path) ==
    \/ path = root
    \/ \E f \in site.files : f.path = path
    \/ \E id \in Ids : \E g \in svg[id].files : path = SvgPath(id, g.stem)

\* C14: every link given to a template is the prefix joined with a path
\* relative to the root: it starts with the prefix, has no segment of the
\* root, and after a successful run the root joined with the rest is a file
\* of the output tree (or the root itself, for Home).
C14_RootRelativeLinks ==
    \A f \in Templated : \A l \in LinksOf(f) :
        /\ Len(l) >= Len(prefix)
        /\ SubSeq(l, 1, Len(prefix)) = prefix
        /\ \A j \in DOMAIN l : l[j] # RootSeg
        /\ (pc = "done" /\ f.build_nonce = runs) =>
               OnDisk(root \o SubSeq(l, Len(prefix) + 1, Len(l)))

\* A successful run wrote a folder page that lists a document and its
\* thumbnail, under a breadcrumb.
C14_Witness ==
    /\ pc = "done"
    /\ \E f \in Templated :
          /\ f.build_nonce = runs
          /\ f.template = "folder"
          /\ f.documents # <<>>
          /\ f.breadcrumbs # <<>>

\* The run rendered every document of the E2E manifest from a one-page
\* archive, starting from an empty cache.
E2ERun ==
    /\ shape = ShapeE2E
    /\ pc = "done"
    /\ cacheAtLoad.cache = EmptyMap
    /\ \A i \in Calls : zips[tasks[i].doc.id] = Zip(<<0>>)

E2ECommon ==
    /\ root \o <<StrIndex \o DotHtml>> \in { f.path : f \in site.files }
    /\ \A id \in 1..4 : { SvgPath(id, g.stem) : g \in svg[id].files } = {SvgPath(id, 0)}
    /\ cacheFile.st = "complete"
    /\ DOMAIN cacheFile.cache = 1..4

StrLowWelcome == <<119, 101, 108, 99, 111, 109, 101>>   \* "welcome"
StrLowRecipes == <<114, 101, 99, 105, 112, 101, 115>>   \* "recipes"
StrLowSoup    == <<115, 111, 117, 112>>                 \* "soup"

\* C15: for the manifest {Welcome: D1, Recipes: {Soup: D2}} with one page
\* per document, a run from an empty cache produces index.html,
\* posts/welcome.html, posts/recipes.html, posts/recipes/soup.html, a 0.svg
\* for each of the four ids and a cache file with the four ids.
C15_E2ELowerCase ==
    E2ERun =>
        /\ E2ECommon
        /\ { root \o <<StrPosts, StrLowWelcome \o DotHtml>>,
              root \o <<StrPosts, StrLowRecipes \o DotHtml>>,
              root \o <<StrPosts, StrLowRecipes, StrLowSoup \o DotHtml>> }
                \subseteq { f.path : f \in site.files }

\* C15, amended: the same with the names as they are in the manifest:
\* posts/Welcome.html, posts/Recipes.html, posts/Recipes/Soup.html.
C15_E2EAsNamed ==
    E2ERun =>
        /\ E2ECommon
        /\ { f.path : f \in site.files } =
              { root \o <<StrIndex \o DotHtml>>,
                root \o <<StrStyle>>,
                root \o <<StrPosts, StrWelcome \o DotHtml>>,
                root \o <<StrPosts, StrRecipes \o DotHtml>>,
                root \o <<StrPosts, StrRecipes, StrSoup \o DotHtml>> }
        /\ site.dirs = {root \o <<StrPosts>>, root \o <<StrPosts, StrRecipes>>}

C15_Witness == E2ERun /\ runs = 1

(***************************************************************************)
(* Manifest::build against the records, told as sets.                      *)
(***************************************************************************)
IsFolder(d) == d.doc_type = CollectionType
IsNotebook(d) == d.doc_type = DocumentType
ChildrenOf(id) == { d \in cloud : d.parent = ParentNode(id) }
AtRoot == { d \in cloud : d.parent = ParentRoot }
MetaOf(d) == [id |-> d.id, name |-> d.visible_name, modified_client |-> d.modified_client]
Reports(e, msg) == e.kind = "error" /\ \E j \in DOMAIN e.chain : e.chain[j].msg = msg
Counts(e, n) == \E j \in DOMAIN e.chain : n \in e.chain[j].args

\* The root-level folders named as the specifier.
RootsNamed == { d \in AtRoot : IsFolder(d) /\ d.visible_name = specifier }

\* C16: a specifier that parses as an id resolves to the record of that id,
\* and the build fails when there is none or when it is no folder; any other
\* specifier resolves to the one root-level folder of that name, and the
\* build fails, with the number of matches, when there are none or several.
C16_RootResolution ==
    built.st = "built" =>
        IF UuidParse(specifier) # {}
        THEN LET id == CHOOSE x \in UuidParse(specifier) : TRUE
             IN  /\ (\A d \in cloud : d.id # id) =>
                        ~built.ok /\ Reports(built.err, "No document with ID")
                 /\ (\E d \in cloud : d.id = id /\ ~IsFolder(d)) =>
                        ~built.ok /\ Reports(built.err, "Site root must be a folder")
                 /\ (\E d \in cloud : d.id = id /\ IsFolder(d)) => built.site_root = id
        ELSE /\ Cardinality(RootsNamed) # 1 =>
                    /\ ~built.ok
                    /\ built.site_root = 0
                    /\ Reports(built.err, "Make sure to have one folder named")
                    /\ Counts(built.err, Cardinality(RootsNamed))
             /\ Cardinality(RootsNamed) = 1 => \E d \in RootsNamed : built.site_root = d.id

\* The build failed over two root-level folders of the name, and the error
\* says two.
C16_Witness ==
    /\ built.st = "built"
    /\ UuidParse(specifier) = {}
    /\ Cardinality(RootsNamed) = 2
    /\ Counts(built.err, 2)

\* The notebooks of that name right under the resolved root.
Named(name) == { d \in ChildrenOf(built.site_root) : IsNotebook(d) /\ d.visible_name = name }
NamesNotebook(e, name) ==
    /\ e.kind = "error"
    /\ \E j \in DOMAIN e.chain : "names" \in DOMAIN e.chain[j] /\ name \in e.chain[j].names
MissingOrMultiple(e, n) ==
    IF n = 0 THEN Reports(e, "Missing notebook in site root")
    ELSE Reports(e, "Multiple notebooks in site root")

\* C17: once the root is resolved, the build succeeds only when the root
\* has exactly one child notebook named "Home" and exactly one named "Logo";
\* with none or several of either it fails with an error that names the
\* notebook, and on success home and logo are those children's id, name and
\* timestamp.
C17_HomeAndLogo ==
    (built.st = "built" /\ built.site_root # 0) =>
        LET homes == Named(StrHome)
            logos == Named(StrLogo)
        IN  /\ built.ok =>
                   /\ Cardinality(homes) = 1 /\ Cardinality(logos) = 1
                   /\ \E h \in homes : built.manifest.home = MetaOf(h)
                   /\ \E l \in logos : built.manifest.logo = MetaOf(l)
            /\ Cardinality(homes) # 1 =>
                   /\ ~built.ok
                   /\ NamesNotebook(built.err, StrHome)
                   /\ MissingOrMultiple(built.err, Cardinality(homes))
            /\ (Cardinality(homes) = 1 /\ Cardinality(logos) # 1) =>
                   /\ ~built.ok
                   /\ NamesNotebook(built.err, StrLogo)
                   /\ MissingOrMultiple(built.err, Cardinality(logos))

\* A build that succeeded over a root that has, beside its one notebook
\* named "Home", a folder of that name.
C17_Witness ==
    /\ built.st = "built"
    /\ built.ok
    /\ \E d \in ChildrenOf(built.site_root) : IsFolder(d) /\ d.visible_name = StrHome

\* The path of names of a record from the folder top down, or <<>> when the
\* record is not under it.
RECURSIVE PathUnder(_, _)
PathUnder(d, top) ==
    IF d.parent = ParentNode(top) THEN <<d.visible_name>>
    ELSE LET ps == { p \in cloud : d.parent = ParentNode(p.id) }
         IN  IF ps = {} THEN <<>>
             ELSE LET up == PathUnder(CHOOSE p \in ps : TRUE, top)
                  IN  IF up = <<>> THEN <<>> ELSE Append(up, d.visible_name)

\* The record paths and the tree's paths, each with the kind and the id.
RecordsUnder(top) ==
    { [path |-> PathUnder(d, top), kind |-> d.doc_type,
       id |-> IF IsNotebook(d) THEN d.id ELSE 0] :
          d \in { x \in cloud : PathUnder(x, top) # <<>> } }

TreeEntries(posts) ==
    { [path |-> Append(n.anc, n.name),
       kind |-> IF n.kind = "document" THEN DocumentType ELSE CollectionType,
       id |-> n.id] : n \in PostsNodes(posts, <<>>) }

PostsFolders == { d \in ChildrenOf(built.site_root) : IsFolder(d) /\ d.visible_name = StrPostsFolder }

\* C18: when the build succeeds, the posts tree has every notebook and every
\* folder under the "Posts" folder at its path of names, as its type says,
\* and nothing else: no record is dropped or merged into another.
C18_PostsMirrored ==
    (built.st = "built" /\ built.ok) =>
        \E p \in PostsFolders : TreeEntries(built.manifest.posts) = RecordsUnder(p.id)

\* C21: between runs, whether the last one ended well or failed, every entry
\* (id, t) of render_cache.json is backed by svg/<id>/: the directory is there
\* and its images are the ones rendered from the version of timestamp t.
C21_EntriesBackedByImages ==
    (pc \in BetweenRuns /\ cacheFile.st = "complete") =>
        \A id \in DOMAIN cacheFile.cache :
            /\ svg[id].exists
            /\ \A f \in svg[id].files : f.ts = cacheFile.cache[id]

\* The run has got to the save: everything else of gen_index is done.
Saving == pc \in {"save_write", "save_end", "done"}
InRun == pc \in {"home", "logo", "fanout", "extend", "assemble", "save"}

\* C22: render_cache.json is written as the last step of a run: while it
\* differs from what it was at the start every document has been rendered or
\* reused and every page, index.html and style.css are written; a run that
\* fails before leaves the file as it was.
C22_CacheWrittenLast ==
    /\ (InRun \/ pc = "failed") => cacheFile = fileAtStart
    /\ Saving =>
          /\ \A i \in Calls : tasks[i].st = "done"
          /\ asm = Len(GenIndex(manifest))
          /\ \E f \in site.files : f.template = "index" /\ f.build_nonce = runs
          /\ \E f \in site.files : f.template = "css"

\* A run over a complete cache file failed in the assembly, after pages
\* were written.
C22_Witness ==
    /\ pc = "failed"
    /\ asm > 0
    /\ fileAtStart.st = "complete"
    /\ fileAtStart.cache # EmptyMap

\* The links of a page list.
PageLinks(pages) == [j \in DOMAIN pages |-> pages[j].link]

\* C23: the page list a hit returns for a document equals, element for
\* element, the list the run before handed to the document's page.
C23_HitEqualsRender ==
    \A i \in Calls : \A n \in Nodes : \A f \in PageOf(n) :
        (/\ tasks[i].st = "done" /\ TookListing(i)
         /\ n.kind = "document" /\ n.id = tasks[i].doc.id
         /\ f.build_nonce = runs - 1)
            => f.pages = PageLinks(tasks[i].pages)

\* In every folder the sanitized names of the documents are distinct, and so
\* are those of the sub-folders.
RECURSIVE SiblingsDistinct(_)
SiblingsDistinct(posts) ==
    /\ \A a, b \in DOMAIN posts.documents :
          Segment(posts.documents[a].name) = Segment(posts.documents[b].name) => a = b
    /\ \A a, b \in DOMAIN posts.folders : Segment(a) = Segment(b) => a = b
    /\ \A a \in DOMAIN posts.folders : SiblingsDistinct(posts.folders[a])

\* C24: when in every folder the sanitized names of the documents are
\* distinct and those of the sub-folders are distinct, every node has its own
\* page at the end of a run: none was overwritten by the page of another.
C24_OwnPagePerNode ==
    (pc = "done" /\ SiblingsDistinct(manifest.posts)) =>
        \A n \in Nodes : \E f \in PageOf(n) : f.build_nonce = runs

\* The ids the assembler asks the first page of: the logo and the documents
\* of the posts tree.
FirstPageIds == {manifest.logo.id} \cup { n.id : n \in { x \in Nodes : x.kind = "document" } }

\* C25: once prepare has returned the Generator, the artifact map has an
\* entry for home, logo and every document of the posts tree, and a page in
\* every entry whose first page is asked for: no lookup of gen_index fails.
C25_LookupsSucceed ==
    Assembling =>
        /\ \A i \in Calls : tasks[i].doc.id \in DOMAIN doc_svgs
        /\ \A id \in FirstPageIds : id \in DOMAIN doc_svgs /\ doc_svgs[id] # <<>>
        /\ err.kind # "panic"

====
